---- MODULE Spec2Model ----
(***************************************************************************)
(* godan-dist HTTP server: the four handlers of src/server/handlers.go     *)
(* (tasksHandler, getStatusHandler, setStatusHandler, queryHandler), the   *)
(* query template and the filter extraction.                               *)
(*                                                                         *)
(* Strings that the code takes apart (URL path, comma-joined parameters)   *)
(* are sequences of one-character strings.  The compiled query text is a   *)
(* sequence of tokens, one per literal fragment of queryTemplate.          *)
(***************************************************************************)
EXTENDS Integers, Sequences, FiniteSets, TLC

VARIABLES
    req,        \* the request being served (kind and decoded input)
    pc,         \* position of the handler serving req
    resp,       \* the http.ResponseWriter: status code written, body writes
    runs,       \* detached task runs started by `go tm.runTasks(task)`
    launches,   \* number of task runs launched by the current request
    workers,    \* the supervisor's worker -> lifecycle state view
    invoked,    \* supervisor.Invoke calls made by the current request
    statusLog,  \* mappings of the last two status responses since the last Invoke
    afterErr,   \* a collaborator call was made after an error was written
    f,          \* Filters built by extractFilters
    query,      \* text produced by executing queryTemplate
    data,       \* argument list handed to stmt.Query
    rows,       \* result set of the running query
    idx,        \* rows consumed so far
    rowsErr,    \* what rows.Err() would report
    result      \* []Banner accumulated by the row loop

vars == <<req, pc, resp, runs, launches, workers, invoked, statusLog,
          afterErr, f, query, data, rows, idx, rowsErr, result>>

queryVars == <<f, query, data, rows, idx, rowsErr, result>>

----------------------------------------------------------------------------
(* Bounds *)

MaxParamLen == 2
MaxRuns == 2
MaxRows == 1

----------------------------------------------------------------------------
(* Strings *)

Str(n, alphabet) == UNION {[1..k -> alphabet] : k \in 0..n}

TrimPrefix(s, prefix) ==
    IF Len(s) >= Len(prefix) /\ SubSeq(s, 1, Len(prefix)) = prefix
    THEN SubSeq(s, Len(prefix) + 1, Len(s))
    ELSE s

RECURSIVE Split(_)
Split(s) ==
    IF \A i \in 1..Len(s) : s[i] # ","
    THEN <<s>>
    ELSE LET i == CHOOSE j \in 1..Len(s) :
                      s[j] = "," /\ \A k \in 1..(j - 1) : s[k] # ","
         IN  <<SubSeq(s, 1, i - 1)>> \o Split(SubSeq(s, i + 1, Len(s)))

----------------------------------------------------------------------------
(* Filters and the query template *)

IpsPath == <<"/", "i", "p", "s">>

extractFilters(request) ==
    LET values == request.values
        ip0 == TrimPrefix(request.path, IpsPath)
        ip == IF ip0 # <<>> THEN TrimPrefix(ip0, <<"/">>) ELSE ip0
        p == IF values.port # <<>> THEN Split(values.port[1]) ELSE <<>>
        s == IF values.service # <<>> THEN Split(values.service[1]) ELSE <<>>
        r == IF values.regexp # <<>> THEN values.regexp[1] ELSE <<>>
    IN  [Ip |-> ip, Ports |-> p, Services |-> s, Regexp |-> r]

\* text/template truth: a string or slice is true iff it is not empty
truth(v) == Len(v) > 0

\* {{range $i, $v := .X}}{{if $i}},{{end}}?{{end}}, from element i (0-based) on
RECURSIVE rangeFrom(_, _)
rangeFrom(list, i) ==
    IF i >= Len(list) THEN <<>>
    ELSE (IF i # 0 THEN <<",">> ELSE <<>>) \o <<"?">> \o rangeFrom(list, i + 1)

rangePlaceholders(list) == rangeFrom(list, 0)

\* mutant: the joiner before the service clause looks at .Ip only
queryTemplate_ServiceJoin(flt) ==
    <<"SELECT DISTINCT INET_NTOA(ip), port, service, content FROM banners">>
    \o (IF truth(flt.Ip) \/ truth(flt.Ports) \/ truth(flt.Services) \/ truth(flt.Regexp)
        THEN <<"WHERE">> ELSE <<>>)
    \o (IF truth(flt.Ip) THEN <<"ip = INET_ATON((", "?", "))">> ELSE <<>>)
    \o (IF truth(flt.Ip) /\ truth(flt.Ports) THEN <<"AND">> ELSE <<>>)
    \o (IF truth(flt.Ports)
        THEN <<"port IN (">> \o rangePlaceholders(flt.Ports) \o <<")">> ELSE <<>>)
    \o (IF truth(flt.Services) /\ truth(flt.Ip) THEN <<"AND">> ELSE <<>>)
    \o (IF truth(flt.Services)
        THEN <<"service IN (">> \o rangePlaceholders(flt.Services) \o <<")">> ELSE <<>>)
    \o (IF truth(flt.Regexp) /\ (truth(flt.Ip) \/ truth(flt.Ports) \/ truth(flt.Services))
        THEN <<"AND">> ELSE <<>>)
    \o (IF truth(flt.Regexp) THEN <<"content regexp (", "?", ")">> ELSE <<>>)
    \o <<";">>

queryTemplate(flt) ==
    <<"SELECT DISTINCT INET_NTOA(ip), port, service, content FROM banners">>
    \o (IF truth(flt.Ip) \/ truth(flt.Ports) \/ truth(flt.Services) \/ truth(flt.Regexp)
        THEN <<"WHERE">> ELSE <<>>)
    \o (IF truth(flt.Ip) THEN <<"ip = INET_ATON((", "?", "))">> ELSE <<>>)
    \o (IF truth(flt.Ip) /\ truth(flt.Ports) THEN <<"AND">> ELSE <<>>)
    \o (IF truth(flt.Ports)
        THEN <<"port IN (">> \o rangePlaceholders(flt.Ports) \o <<")">> ELSE <<>>)
    \o (IF truth(flt.Services) /\ (truth(flt.Ip) \/ truth(flt.Ports))
        THEN <<"AND">> ELSE <<>>)
    \o (IF truth(flt.Services)
        THEN <<"service IN (">> \o rangePlaceholders(flt.Services) \o <<")">> ELSE <<>>)
    \o (IF truth(flt.Regexp) /\ (truth(flt.Ip) \/ truth(flt.Ports) \/ truth(flt.Services))
        THEN <<"AND">> ELSE <<>>)
    \o (IF truth(flt.Regexp) THEN <<"content regexp (", "?", ")">> ELSE <<>>)
    \o <<";">>

\* mutant: empty list elements are filtered out of the argument list
queryData_DropEmpty(flt) ==
    (IF flt.Ip # <<>> THEN <<flt.Ip>> ELSE <<>>)
    \o SelectSeq(flt.Ports, LAMBDA v : v # <<>>)
    \o SelectSeq(flt.Services, LAMBDA v : v # <<>>)
    \o (IF flt.Regexp # <<>> THEN <<flt.Regexp>> ELSE <<>>)

\* data := ...; append Ip, each port, each service, Regexp
queryData(flt) ==
    (IF flt.Ip # <<>> THEN <<flt.Ip>> ELSE <<>>)
    \o flt.Ports
    \o flt.Services
    \o (IF flt.Regexp # <<>> THEN <<flt.Regexp>> ELSE <<>>)

----------------------------------------------------------------------------
(* Requests *)

NoReq == [kind |-> "none"]

TaskBodies == {"readErr", "badJson", "task"}

Workers == {"w1"}
Targets == {"w1", "w9"}
LifecycleStates == {"running", "paused", "shutting-down", "terminated"}

CommandTexts == {"softshutdown", "hardshutdown", "pause", "resume", "nonsense", ""}

\* the zero value of `var command monmq.Command`
ZeroCommand == "Command(0)"

\* var cmd MonmqCmd before json.Unmarshal fills it
ZeroMonmqCmd == [Target |-> "", Command |-> ""]

CmdRequests ==
    {[kind |-> "setStatus", body |-> b, cmd |-> ZeroMonmqCmd] : b \in {"readErr", "badJson"}}
    \cup {[kind |-> "setStatus", body |-> "json", cmd |-> [Target |-> t, Command |-> c]] :
             t \in Targets, c \in CommandTexts}

Params(S) == {<<>>} \cup {<<raw>> : raw \in S}

QueryRequestsOver(paths, lists, regexps) ==
    {[kind |-> "query", path |-> p,
      values |-> [port |-> po, service |-> se, regexp |-> re]] :
        p \in paths, po \in Params(lists), se \in Params(lists), re \in Params(regexps)}

Paths == {IpsPath, IpsPath \o <<"/", "1">>}

\* every request shape up to MaxParamLen characters per list parameter
AllQueryRequests ==
    QueryRequestsOver(Paths, Str(MaxParamLen, {"8", ","}), Str(1, {"x"}))

\* the requests the served handler is driven with
ServedQueryRequests ==
    QueryRequestsOver(Paths, {<<"8", ",">>}, {<<"x">>})

----------------------------------------------------------------------------
(* http.ResponseWriter *)

NewResponse == [code |-> 0, body |-> <<>>]

GenericDetail == "Something went wrong."

\* w.WriteHeader(code); fmt.Fprintf(w, <error json>)
WriteError(rw, code, detail) ==
    [code |-> IF rw.code = 0 THEN code ELSE rw.code,
     body |-> Append(rw.body, <<"error", detail>>)]

\* fmt.Fprint*(w, ...) without WriteHeader: the first write sends 200
Write(rw, tag, val) ==
    [code |-> IF rw.code = 0 THEN 200 ELSE rw.code,
     body |-> Append(rw.body, <<tag, val>>)]

\* the handler returns: net/http sends 200 when no header was written
Return(rw) == [rw EXCEPT !.code = IF @ = 0 THEN 200 ELSE @]

ErrWritten(rw) == \E i \in 1..Len(rw.body) : rw.body[i][1] = "error"

EmptyFilters == [Ip |-> <<>>, Ports |-> <<>>, Services |-> <<>>, Regexp |-> <<>>]

ResetQuery ==
    /\ f' = EmptyFilters
    /\ query' = <<>>
    /\ data' = <<>>
    /\ rows' = <<>>
    /\ idx' = 0
    /\ rowsErr' = FALSE
    /\ result' = <<>>

\* net/http hands a new request to its handler with a fresh ResponseWriter
Serve(request, start) ==
    /\ pc \in {"idle", "done"}
    /\ req' = request
    /\ pc' = start
    /\ resp' = NewResponse
    /\ launches' = 0
    /\ invoked' = <<>>
    /\ afterErr' = FALSE
    /\ ResetQuery
    /\ UNCHANGED <<runs, workers, statusLog>>

----------------------------------------------------------------------------
(* POST /tasks: tasksHandler, and the detached task runs *)

RunIds == 1..MaxRuns

FreeRuns == {i \in RunIds : runs[i] = "none"}

\* server.go routes POST /tasks to tasksHandler
ArriveTasks ==
    /\ FreeRuns # {}
    /\ \E b \in TaskBodies : Serve([kind |-> "tasks", body |-> b], "read")

\* data, err := ioutil.ReadAll(r.Body)
tasksRead ==
    /\ req.kind = "tasks" /\ pc = "read"
    /\ \/ /\ req.body = "readErr"
          /\ resp' = WriteError(resp, 500, GenericDetail)
          /\ pc' = "done"
       \/ /\ req.body # "readErr"
          /\ resp' = resp
          /\ pc' = "decode"
    /\ UNCHANGED <<req, runs, launches, workers, invoked, statusLog, afterErr, queryVars>>

\* mutant: the return after the 400 is missing
tasksDecode_NoReturn ==
    /\ req.kind = "tasks" /\ pc = "decode"
    /\ \/ /\ req.body = "badJson"
          /\ resp' = WriteError(resp, 400, "Invalid json format.")
       \/ /\ req.body = "task"
          /\ resp' = resp
    /\ pc' = "launch"
    /\ UNCHANGED <<req, runs, launches, workers, invoked, statusLog, afterErr, queryVars>>

\* err = json.Unmarshal(data, &task)
tasksDecode ==
    /\ req.kind = "tasks" /\ pc = "decode"
    /\ \/ /\ req.body = "badJson"
          /\ resp' = WriteError(resp, 400, "Invalid json format.")
          /\ pc' = "done"
       \/ /\ req.body = "task"
          /\ resp' = resp
          /\ pc' = "launch"
    /\ UNCHANGED <<req, runs, launches, workers, invoked, statusLog, afterErr, queryVars>>

\* the run launched last
CurrentRun == CHOOSE i \in RunIds : runs[i] # "none" /\ \A j \in RunIds : j > i => runs[j] = "none"

Finished == {"completed", "failed"}

\* mutant: a run is launched only once every earlier run has finished
tasksLaunch_Serialized ==
    /\ req.kind = "tasks" /\ pc = "launch"
    /\ \A j \in RunIds : runs[j] \in Finished \cup {"none"}
    /\ \E i \in FreeRuns :
          /\ \A j \in FreeRuns : i <= j
          /\ runs' = [runs EXCEPT ![i] = "spawned"]
    /\ launches' = launches + 1
    /\ afterErr' = (afterErr \/ ErrWritten(resp))
    /\ pc' = "ack"
    /\ UNCHANGED <<req, resp, workers, invoked, statusLog, queryVars>>

\* tm := newTaskManager(s.client, s.database); go tm.runTasks(task)
tasksLaunch ==
    /\ req.kind = "tasks" /\ pc = "launch"
    /\ \E i \in FreeRuns :
          /\ \A j \in FreeRuns : i <= j
          /\ runs' = [runs EXCEPT ![i] = "spawned"]
    /\ launches' = launches + 1
    /\ afterErr' = (afterErr \/ ErrWritten(resp))
    /\ pc' = "ack"
    /\ UNCHANGED <<req, resp, workers, invoked, statusLog, queryVars>>

\* mutant: runTasks is called without `go`, the handler waits for its result
tasksAck_AwaitRun ==
    /\ req.kind = "tasks" /\ pc = "ack"
    /\ runs[CurrentRun] \in Finished
    /\ resp' = Write(resp, "ack", "success")
    /\ pc' = "done"
    /\ UNCHANGED <<req, runs, launches, workers, invoked, statusLog, afterErr, queryVars>>

\* fmt.Fprintln(w, "{\"status\": \"success\"}") and return
tasksAck ==
    /\ req.kind = "tasks" /\ pc = "ack"
    /\ resp' = Write(resp, "ack", "success")
    /\ pc' = "done"
    /\ UNCHANGED <<req, runs, launches, workers, invoked, statusLog, afterErr, queryVars>>

tasksHandler == tasksRead \/ tasksDecode \/ tasksLaunch \/ tasksAck

\* the goroutine running tm.runTasks(task) issues its RPC invocation
runInvoke(i) ==
    /\ runs[i] = "spawned"
    /\ runs' = [runs EXCEPT ![i] = "invoking"]
    /\ UNCHANGED <<req, pc, resp, launches, workers, invoked, statusLog, afterErr, queryVars>>

\* the RPC invocation returns a result
runComplete(i) ==
    /\ runs[i] = "invoking"
    /\ runs' = [runs EXCEPT ![i] = "completed"]
    /\ UNCHANGED <<req, pc, resp, launches, workers, invoked, statusLog, afterErr, queryVars>>

\* the RPC invocation returns an error
runFail(i) ==
    /\ runs[i] = "invoking"
    /\ runs' = [runs EXCEPT ![i] = "failed"]
    /\ UNCHANGED <<req, pc, resp, launches, workers, invoked, statusLog, afterErr, queryVars>>

runTasks == \E i \in RunIds : runInvoke(i) \/ runComplete(i) \/ runFail(i)

----------------------------------------------------------------------------
(* GET /status: getStatusHandler *)

ArriveGetStatus == Serve([kind |-> "getStatus"], "status")

\* s.supervisor.Status()
Status == workers

\* mutant: answering the status request resets the supervisor's view
getStatusHandler_Refresh ==
    /\ req.kind = "getStatus" /\ pc = "status"
    /\ \/ /\ resp' = WriteError(resp, 500, GenericDetail)
          /\ UNCHANGED statusLog
       \/ /\ resp' = Write(resp, "status", Status)
          /\ statusLog' = IF Len(statusLog) < 2
                          THEN Append(statusLog, Status)
                          ELSE <<statusLog[2], Status>>
    /\ workers' = [w \in Workers |-> "running"]
    /\ pc' = "done"
    /\ UNCHANGED <<req, runs, launches, invoked, afterErr, queryVars>>

\* b, err := json.Marshal(s.supervisor.Status()); write b or the 500 error
getStatusHandler ==
    /\ req.kind = "getStatus" /\ pc = "status"
    /\ \/ /\ resp' = WriteError(resp, 500, GenericDetail)
          /\ UNCHANGED statusLog
       \/ /\ resp' = Write(resp, "status", Status)
          /\ statusLog' = IF Len(statusLog) < 2
                          THEN Append(statusLog, Status)
                          ELSE <<statusLog[2], Status>>
    /\ pc' = "done"
    /\ UNCHANGED <<req, runs, launches, workers, invoked, afterErr, queryVars>>

----------------------------------------------------------------------------
(* POST /status: setStatusHandler *)

ArriveSetStatus == \E r \in CmdRequests : Serve(r, "read")

\* data, err := ioutil.ReadAll(r.Body)
setStatusRead ==
    /\ req.kind = "setStatus" /\ pc = "read"
    /\ \/ /\ req.body = "readErr"
          /\ resp' = WriteError(resp, 500, GenericDetail)
          /\ pc' = "done"
       \/ /\ req.body # "readErr"
          /\ resp' = resp
          /\ pc' = "decode"
    /\ UNCHANGED <<req, runs, launches, workers, invoked, statusLog, afterErr, queryVars>>

\* mutant: the return after the 400 is missing
setStatusDecode_NoReturn ==
    /\ req.kind = "setStatus" /\ pc = "decode"
    /\ \/ /\ req.body = "badJson"
          /\ resp' = WriteError(resp, 400, "Invalid json format.")
       \/ /\ req.body = "json"
          /\ resp' = resp
    /\ pc' = "invoke"
    /\ UNCHANGED <<req, runs, launches, workers, invoked, statusLog, afterErr, queryVars>>

\* if err = json.Unmarshal(data, &cmd); err != nil
setStatusDecode ==
    /\ req.kind = "setStatus" /\ pc = "decode"
    /\ \/ /\ req.body = "badJson"
          /\ resp' = WriteError(resp, 400, "Invalid json format.")
          /\ pc' = "done"
       \/ /\ req.body = "json"
          /\ resp' = resp
          /\ pc' = "invoke"
    /\ UNCHANGED <<req, runs, launches, workers, invoked, statusLog, afterErr, queryVars>>

\* var command monmq.Command; switch { case cmd.Command == ... }
commandOf(text) ==
    CASE text = "softshutdown" -> "SoftShutdown"
      [] text = "hardshutdown" -> "HardShutdown"
      [] text = "pause" -> "Pause"
      [] text = "resume" -> "Resume"
      [] OTHER -> ZeroCommand

\* outcomes of s.supervisor.Invoke: nil, an error for a command the target
\* cannot take (or an unknown target), an error of the transport
InvokeOutcomes == {"ok", "rejected", "transport"}

\* the supervisor's view after Invoke(command, target) returned `outcome`
Invoke(command, target, outcome) ==
    IF outcome = "ok" /\ target \in Workers
    THEN {[workers EXCEPT ![target] = st] : st \in LifecycleStates}
    ELSE {workers}

\* if err = s.supervisor.Invoke(command, cmd.Target); err != nil { 400 }
setStatusInvoke ==
    /\ req.kind = "setStatus" /\ pc = "invoke"
    /\ \E outcome \in InvokeOutcomes :
          /\ workers' \in Invoke(commandOf(req.cmd.Command), req.cmd.Target, outcome)
          /\ invoked' = Append(invoked, [command |-> commandOf(req.cmd.Command),
                                         target |-> req.cmd.Target,
                                         text |-> req.cmd.Command,
                                         err |-> outcome])
          /\ resp' = IF outcome # "ok"
                     THEN WriteError(resp, 400, "Invalid command for target.")
                     ELSE Return(resp)
    /\ statusLog' = <<>>
    /\ afterErr' = (afterErr \/ ErrWritten(resp))
    /\ pc' = "done"
    /\ UNCHANGED <<req, runs, launches, queryVars>>

setStatusHandler == setStatusRead \/ setStatusDecode \/ setStatusInvoke

----------------------------------------------------------------------------
(* GET /ips, GET /ips/:ip: queryHandler *)

ArriveQuery == \E r \in ServedQueryRequests : Serve(r, "execute")

\* rows of the banners table as the driver returns them
Row(i) == [Ip |-> "10.0.0.1", Port |-> i, Service |-> "ssh", Content |-> "hello"]

ResultSets == {[i \in 1..n |-> Row(i)] : n \in 0..MaxRows}

\* base64.StdEncoding.EncodeToString([]byte(curr.Content))
EncodeToString(content) == <<"base64", content>>

\* f := extractFilters(r); err := t.Execute(query, f)
queryExecute ==
    /\ req.kind = "query" /\ pc = "execute"
    /\ f' = extractFilters(req)
    /\ \/ /\ query' = queryTemplate(f')
          /\ resp' = resp
          /\ pc' = "prepare"
       \/ /\ query' = query
          /\ resp' = WriteError(resp, 500, GenericDetail)
          /\ pc' = "done"
    /\ UNCHANGED <<req, runs, launches, workers, invoked, statusLog, afterErr,
                   data, rows, idx, rowsErr, result>>

\* stmt, err := s.database.Prepare(query.String()); then data is built
queryPrepare ==
    /\ req.kind = "query" /\ pc = "prepare"
    /\ afterErr' = (afterErr \/ ErrWritten(resp))
    /\ \/ /\ data' = queryData(f)
          /\ resp' = resp
          /\ pc' = "query"
       \/ /\ data' = data
          /\ resp' = WriteError(resp, 500, GenericDetail)
          /\ pc' = "done"
    /\ UNCHANGED <<req, runs, launches, workers, invoked, statusLog,
                   f, query, rows, idx, rowsErr, result>>

\* rows, err := stmt.Query(data...)
queryQuery ==
    /\ req.kind = "query" /\ pc = "query"
    /\ afterErr' = (afterErr \/ ErrWritten(resp))
    /\ \/ /\ rows' \in ResultSets
          /\ resp' = resp
          /\ pc' = "next"
       \/ /\ rows' = rows
          /\ resp' = WriteError(resp, 500, GenericDetail)
          /\ pc' = "done"
    /\ UNCHANGED <<req, runs, launches, workers, invoked, statusLog,
                   f, query, data, idx, rowsErr, result>>

\* for rows.Next() { ... }: true on a row, false at the end of the result set
\* or when fetching fails (rows.Err() then holds the error)
queryNext ==
    /\ req.kind = "query" /\ pc = "next"
    /\ \/ /\ idx < Len(rows)
          /\ rowsErr' = rowsErr
          /\ pc' = "scan"
       \/ /\ idx = Len(rows)
          /\ rowsErr' = rowsErr
          /\ pc' = "marshal"
       \/ /\ idx < Len(rows)
          /\ rowsErr' = TRUE
          /\ pc' = "marshal"
    /\ UNCHANGED <<req, resp, runs, launches, workers, invoked, statusLog, afterErr,
                   f, query, data, rows, idx, result>>

\* rows.Scan(&curr.Ip, ...); curr.Content = base64(...); result = append(result, curr)
queryScan ==
    /\ req.kind = "query" /\ pc = "scan"
    /\ \/ /\ result' = Append(result, [rows[idx + 1] EXCEPT
                                           !.Content = EncodeToString(@)])
          /\ idx' = idx + 1
          /\ resp' = resp
          /\ pc' = "next"
       \/ /\ result' = result
          /\ idx' = idx
          /\ resp' = WriteError(resp, 500, GenericDetail)
          /\ pc' = "done"
    /\ UNCHANGED <<req, runs, launches, workers, invoked, statusLog, afterErr,
                   f, query, data, rows, rowsErr>>

\* jsoned, err := json.Marshal(result); fmt.Fprintf(w, string(jsoned))
queryMarshal ==
    /\ req.kind = "query" /\ pc = "marshal"
    /\ \/ resp' = Write(resp, "result", result)
       \/ resp' = WriteError(resp, 500, GenericDetail)
    /\ pc' = "done"
    /\ UNCHANGED <<req, runs, launches, workers, invoked, statusLog, afterErr, queryVars>>

queryHandler ==
    queryExecute \/ queryPrepare \/ queryQuery \/ queryNext \/ queryScan \/ queryMarshal

----------------------------------------------------------------------------
(* The server *)

Init ==
    /\ req = NoReq
    /\ pc = "idle"
    /\ resp = NewResponse
    /\ runs = [i \in RunIds |-> "none"]
    /\ launches = 0
    /\ workers \in [Workers -> LifecycleStates]
    /\ invoked = <<>>
    /\ statusLog = <<>>
    /\ afterErr = FALSE
    /\ f = EmptyFilters
    /\ query = <<>>
    /\ data = <<>>
    /\ rows = <<>>
    /\ idx = 0
    /\ rowsErr = FALSE
    /\ result = <<>>

Next ==
    \/ ArriveTasks
    \/ ArriveGetStatus
    \/ ArriveSetStatus
    \/ ArriveQuery
    \/ tasksHandler
    \/ getStatusHandler
    \/ setStatusHandler
    \/ queryHandler
    \/ runTasks

Spec == Init /\ [][Next]_vars

\* POST /tasks alone; the handler's goroutine always gets to run, a detached
\* task run may stall forever
TasksNext == ArriveTasks \/ tasksHandler \/ runTasks

TasksSpec == Init /\ [][TasksNext]_vars /\ WF_vars(tasksHandler)

\* the query compiler alone, over every request shape within the bounds
CompileInit ==
    /\ req \in AllQueryRequests
    /\ pc = "execute"
    /\ resp = NewResponse
    /\ runs = [i \in RunIds |-> "none"]
    /\ launches = 0
    /\ workers \in [Workers -> LifecycleStates]
    /\ invoked = <<>>
    /\ statusLog = <<>>
    /\ afterErr = FALSE
    /\ f = EmptyFilters
    /\ query = <<>>
    /\ data = <<>>
    /\ rows = <<>>
    /\ idx = 0
    /\ rowsErr = FALSE
    /\ result = <<>>

CompileNext == queryExecute \/ queryPrepare

CompileSpec == CompileInit /\ [][CompileNext]_vars

----------------------------------------------------------------------------
(* Reading the compiled text and the responses *)

IpOpen == "ip = INET_ATON(("
PortOpen == "port IN ("
ServiceOpen == "service IN ("
RegexpOpen == "content regexp ("

Openers == {IpOpen, PortOpen, ServiceOpen, RegexpOpen}
Closers == {"))", ")"}

Count(text, tok) == Cardinality({i \in 1..Len(text) : text[i] = tok})

\* for each "?" of the text, in order: the clause it stands in and its rank there
RECURSIVE OwnersFrom(_, _, _, _)
OwnersFrom(text, i, clause, k) ==
    IF i > Len(text) THEN <<>>
    ELSE IF text[i] \in Openers THEN OwnersFrom(text, i + 1, text[i], 0)
    ELSE IF text[i] = "?"
         THEN <<(<<clause, k + 1>>)>> \o OwnersFrom(text, i + 1, clause, k + 1)
    ELSE OwnersFrom(text, i + 1, clause, k)

Owners(text) == OwnersFrom(text, 1, "", 0)

\* the value of the criterion a placeholder stands for
CriterionValue(flt, owner) ==
    CASE owner[1] = IpOpen -> flt.Ip
      [] owner[1] = PortOpen -> flt.Ports[owner[2]]
      [] owner[1] = ServiceOpen -> flt.Services[owner[2]]
      [] owner[1] = RegexpOpen -> flt.Regexp

\* the order of criteria: IP, ports in caller order, services in caller order, regexp
CriteriaOrder(flt) ==
    (IF flt.Ip # <<>> THEN <<(<<IpOpen, 1>>)>> ELSE <<>>)
    \o [i \in 1..Len(flt.Ports) |-> <<PortOpen, i>>]
    \o [i \in 1..Len(flt.Services) |-> <<ServiceOpen, i>>]
    \o (IF flt.Regexp # <<>> THEN <<(<<RegexpOpen, 1>>)>> ELSE <<>>)

\* the clause openers of the text, in order
ClauseOrder(text) == SelectSeq(text, LAMBDA t : t \in Openers)

PresentClauses(flt) ==
    (IF flt.Ip # <<>> THEN <<IpOpen>> ELSE <<>>)
    \o (IF flt.Ports # <<>> THEN <<PortOpen>> ELSE <<>>)
    \o (IF flt.Services # <<>> THEN <<ServiceOpen>> ELSE <<>>)
    \o (IF flt.Regexp # <<>> THEN <<RegexpOpen>> ELSE <<>>)

Compiled == req.kind = "query" /\ pc = "query"

Acked(rw) == \E i \in 1..Len(rw.body) : rw.body[i][1] = "ack"

Errors(rw) == Cardinality({i \in 1..Len(rw.body) : rw.body[i][1] = "error"})

Successes(rw) == Cardinality({i \in 1..Len(rw.body) : rw.body[i][1] # "error"})

ValidTexts == {"softshutdown", "hardshutdown", "pause", "resume"}

KindNamed(text) ==
    CASE text = "softshutdown" -> "SoftShutdown"
      [] text = "hardshutdown" -> "HardShutdown"
      [] text = "pause" -> "Pause"
      [] text = "resume" -> "Resume"

----------------------------------------------------------------------------
(* Claims *)

\* C1: the supervisor's command call is made only for one of the four command
\* texts, with the matching kind and the request's target; any other text ends
\* in a 400 with no command call made.
C1_OnlyValidCommandsForwarded ==
    /\ \A i \in 1..Len(invoked) :
          /\ invoked[i].text \in ValidTexts
          /\ invoked[i].command = KindNamed(invoked[i].text)
          /\ invoked[i].target = req.cmd.Target
    /\ (req.kind = "setStatus" /\ pc = "done" /\ req.body = "json"
          /\ req.cmd.Command \notin ValidTexts)
        => (resp.code = 400 /\ invoked = <<>>)

\* C2: the compiled text has as many placeholders as the argument list has
\* elements, the i-th placeholder stands in the clause of the criterion the
\* i-th argument comes from (IP, ports in caller order in one IN predicate,
\* services in caller order in one IN predicate, regexp), empty-string list
\* elements included.
C2_PlaceholderArgumentParity ==
    Compiled =>
        LET owners == Owners(query)
        IN  /\ Count(query, "?") = Len(data)
            /\ Len(owners) = Len(data)
            /\ owners = CriteriaOrder(f)
            /\ \A i \in 1..Len(owners) : data[i] = CriterionValue(f, owners[i])
            /\ Count(query, PortOpen) = (IF f.Ports # <<>> THEN 1 ELSE 0)
            /\ Count(query, ServiceOpen) = (IF f.Services # <<>> THEN 1 ELSE 0)

\* C2 witness: IP, a two-element port list with an empty element, a
\* one-element service list and a regexp have been compiled.
C2_Witness ==
    /\ Compiled
    /\ f.Ip # <<>>
    /\ Len(f.Ports) = 2 /\ f.Ports[2] = <<>>
    /\ Len(f.Services) = 1
    /\ f.Regexp # <<>>
    /\ Len(data) = 5

\* C3: the text has a WHERE iff some criterion is present; the number of ANDs is
\* the number of present clauses minus one (zero for none); every AND stands
\* between two clauses, which come in the order IP, ports, services, regexp; no
\* criterion at all gives no WHERE, no AND, no placeholder and no argument.
C3_WhereAndJoiners ==
    Compiled =>
        LET n == Len(PresentClauses(f))
        IN  /\ (Count(query, "WHERE") = 1) <=> (n >= 1)
            /\ Count(query, "WHERE") <= 1
            /\ Count(query, "AND") = (IF n = 0 THEN 0 ELSE n - 1)
            /\ ClauseOrder(query) = PresentClauses(f)
            /\ \A i \in 1..Len(query) :
                  query[i] = "AND" =>
                      /\ i > 1 /\ query[i - 1] \in Closers
                      /\ i < Len(query) /\ query[i + 1] \in Openers
            /\ (n = 0) => (Count(query, "?") = 0 /\ data = <<>>)

\* C3 witness: ports and regexp only have been compiled (one AND, joining two
\* clauses that are not neighbours in the template).
C3_Witness ==
    /\ Compiled
    /\ f.Ip = <<>> /\ f.Services = <<>>
    /\ f.Ports # <<>> /\ f.Regexp # <<>>
    /\ Count(query, "AND") = 1

\* C4: a query request answers 200 with a result array only when every row of
\* the result set was read and decoded; a failure of the row iteration ends in
\* a 500 with no result array.
C4_NoTruncatedSuccess ==
    (req.kind = "query" /\ pc = "done") =>
        /\ (resp.code = 200) => (~rowsErr /\ idx = Len(rows) /\ Len(result) = Len(rows))
        /\ rowsErr => (resp.code = 500 /\ Successes(resp) = 0)

\* C5: every task submission that decodes is acknowledged, whether or not its
\* RPC invocation ever completes.
C5_AckWithoutWaiting ==
    (req.kind = "tasks" /\ req.body = "task" /\ pc = "read")
        ~> (req.kind = "tasks" /\ pc = "done" /\ Acked(resp))

\* C5 witness: the caller holds the acknowledgement while the RPC invocation of
\* its task is still in progress.
C5_Witness ==
    /\ req.kind = "tasks" /\ pc = "done" /\ Acked(resp)
    /\ launches = 1
    /\ runs[CurrentRun] = "invoking"

\* C6: a failed command call is answered by its cause: a rejected command or
\* unknown target with a 4xx, a transport failure with a 5xx, never a 400.
C6_TransportFailureIs5xx ==
    (req.kind = "setStatus" /\ pc = "done") =>
        \A i \in 1..Len(invoked) :
            /\ invoked[i].err = "rejected" => resp.code \in 400..499
            /\ invoked[i].err = "transport" => resp.code \in 500..599

\* C7: a submission whose body cannot be read ends in a 500, one that does not
\* decode in a 400, both with no task run launched and no acknowledgement; a
\* run is launched at most once, only for a decoded submission, and exactly
\* once by the time such a submission is answered.
C7_LaunchOnlyDecoded ==
    req.kind = "tasks" =>
        /\ launches <= 1
        /\ launches = 1 => req.body = "task"
        /\ pc = "done" =>
              /\ req.body = "readErr" =>
                    (resp.code = 500 /\ launches = 0 /\ ~Acked(resp))
              /\ req.body = "badJson" =>
                    (resp.code = 400 /\ launches = 0 /\ ~Acked(resp))
              /\ req.body = "task" => launches = 1

\* C7 witness: an undecodable submission has been answered.
C7_Witness ==
    /\ req.kind = "tasks" /\ req.body = "badJson" /\ pc = "done"
    /\ resp.code = 400
    /\ \E i \in RunIds : runs[i] # "none"

\* C8: whatever the state of the other submissions' invocations, a decoded
\* submission can launch its run and be acknowledged, a launched run can issue
\* its invocation, and an invocation in progress can return.
C8_IndependentDispatch ==
    /\ (req.kind = "tasks" /\ pc = "launch") => ENABLED tasksLaunch
    /\ (req.kind = "tasks" /\ pc = "ack") => ENABLED tasksAck
    /\ \A i \in RunIds :
          /\ runs[i] = "spawned" => ENABLED runInvoke(i)
          /\ runs[i] = "invoking" => (ENABLED runComplete(i) /\ ENABLED runFail(i))

\* C8 witness: a later submission is acknowledged and its invocation has
\* completed while the invocation of an earlier one is still in progress.
C8_Witness ==
    /\ runs[1] = "invoking"
    /\ runs[2] = "completed"
    /\ req.kind = "tasks" /\ pc = "done" /\ Acked(resp)

\* C9: serving a status request forwards no command and leaves every worker's
\* lifecycle state alone: the status responses given since the last command
\* carry equal mappings, the supervisor's current one.
C9_StatusReadOnly ==
    /\ req.kind = "getStatus" => invoked = <<>>
    /\ \A i \in 1..Len(statusLog) : statusLog[i] = workers
    /\ \A i, j \in 1..Len(statusLog) : statusLog[i] = statusLog[j]

\* C9 witness: two status requests in a row have been answered.
C9_Witness ==
    /\ req.kind = "getStatus" /\ pc = "done"
    /\ Len(statusLog) = 2
    /\ resp.code = 200

\* C10: a request writes at most one error; once it has, it is done, has written
\* no success body and made no further collaborator call; a finished request
\* has exactly one outcome, a failure status with one error body or a 200 with
\* no error body.
C10_OneOutcome ==
    /\ Errors(resp) <= 1
    /\ ~afterErr
    /\ Errors(resp) = 1 =>
          (pc = "done" /\ Successes(resp) = 0 /\ resp.code \in {400, 500})
    /\ Errors(resp) = 0 => resp.code \in {0, 200}
    /\ Successes(resp) <= 1
    /\ pc = "done" => resp.code \in {200, 400, 500}

\* C10 witness: a query request failed while scanning a row of its result set.
C10_Witness ==
    /\ req.kind = "query" /\ pc = "done"
    /\ Errors(resp) = 1 /\ resp.code = 500
    /\ rows # <<>> /\ idx < Len(rows) /\ ~rowsErr

====
